---- MODULE Spec2Model ----
(***************************************************************************)
(* Model of the Shanghai salary tax engine (src/tax_calculator.py).        *)
(*                                                                         *)
(* Money is an integer number of cents (1 yuan = 100).  A value that is    *)
(* finer than a cent before it is rounded (a contribution base times a     *)
(* rate, an annual amount divided by 12) is a numerator over a denominator *)
(* `den`: value = num / den cents.  The float arithmetic of the source is  *)
(* exact at this resolution except where a value lies exactly half way     *)
(* between two cents: there the nearest double decides, and the rounding   *)
(* operators take the tie rule as a parameter.                             *)
(***************************************************************************)
EXTENDS Integers, Sequences, FiniteSets, TLC

VARIABLES
    pc,                  \* "idle" | "loop" | "done": position of the current call
    fn,                  \* entry point being run ("none" when idle)
    amount,              \* argument of monthly_net / annual_net: [kind, v]
    round_int,           \* argument round_int
    gross_monthly,       \* argument of yearly_salary_details (any length)
    gross_list,          \* the list normalised to 12 entries
    cumulative_taxable,  \* accumulator of yearly_salary_details
    cumulative_tax_paid, \* accumulator of yearly_salary_details
    cumulative_tax,      \* local of the loop: the tax owed on cumulative_taxable
    monthly_details,     \* per-month records appended so far
    totals,              \* totals record of yearly_salary_details
    result,              \* record returned by monthly_net / annual_net / _tax probe
    outcome              \* [status, exc]: whether the call returned or raised, and what

vars == << pc, fn, amount, round_int, gross_monthly, gross_list, cumulative_taxable,
           cumulative_tax_paid, cumulative_tax, monthly_details, totals, result, outcome >>

(***************************************************************************)
(* Program constants (cents, or rates as num/den).                         *)
(***************************************************************************)
CENT == 100

MIN_BASE == 269000

MAX_BASE == 3692100

SOCIAL_RATES ==
    [ pension      |-> [num |-> 8, den |-> 100],
      medical      |-> [num |-> 2, den |-> 100],
      unemployment |-> [num |-> 5, den |-> 1000] ]

HOUSING_FUND_RATE == [num |-> 7, den |-> 100]

HOUSING_FUND_RATE_EMPLOYER == [num |-> 7, den |-> 100]

STANDARD_DEDUCTION_MONTHLY == 500000

STANDARD_DEDUCTION_ANNUAL == STANDARD_DEDUCTION_MONTHLY * 12

\* float('inf') as an upper limit
INF == -1

\* <<upper limit (yuan), rate (percent), quick deduction (yuan)>>
MONTHLY_TAX_BRACKETS ==
    << <<3000, 3, 0>>, <<12000, 10, 210>>, <<25000, 20, 1410>>, <<35000, 25, 2660>>,
       <<55000, 30, 4410>>, <<80000, 35, 7160>>, <<INF, 45, 15160>> >>

\* Variant: the quick deduction of the third row with two digits swapped
ANNUAL_TAX_BRACKETS_swapped_digits ==
    << <<36000, 3, 0>>, <<144000, 10, 2520>>, <<300000, 20, 19620>>, <<420000, 25, 31920>>,
       <<660000, 30, 52920>>, <<960000, 35, 85920>>, <<INF, 45, 181920>> >>

ANNUAL_TAX_BRACKETS ==
    << <<36000, 3, 0>>, <<144000, 10, 2520>>, <<300000, 20, 16920>>, <<420000, 25, 31920>>,
       <<660000, 30, 52920>>, <<960000, 35, 85920>>, <<INF, 45, 181920>> >>

(***************************************************************************)
(* Arithmetic helpers.                                                     *)
(***************************************************************************)
Max(a, b) == IF b > a THEN b ELSE a

Min(a, b) == IF b < a THEN b ELSE a

\* The rules by which an exact half is resolved: "even" is round()'s rule on
\* the decimal value; "up" / "down" are the two neighbours a double can fall to.
TieRules == {"up", "down"}

\* round(num/den) to an integer, an exact half resolved by `tie`
Round(num, den, tie) ==
    LET q  == num \div den
        rm == num % den
    IN  IF 2 * rm > den THEN q + 1
        ELSE IF 2 * rm < den THEN q
        ELSE IF tie = "up" \/ (tie = "even" /\ q % 2 = 1) THEN q + 1
        ELSE q

IsTie(num, den) == 2 * (num % den) = den

\* Variant of _r: math.floor(value) without the + 0.5
_r_trunc(num, den, to_int, tie) ==
    IF to_int THEN (num \div (CENT * den)) * CENT
    ELSE Round(num, den, tie)

\* _r(value, to_int) for value = num/den cents; the result is in cents.
\*   to_int: int(math.floor(value + 0.5)), value in yuan
\*   else  : round(value, 2)
_r(num, den, to_int, tie) ==
    IF to_int THEN ((num + (CENT \div 2) * den) \div (CENT * den)) * CENT
    ELSE Round(num, den, tie)

\* _r of (whole + num/den) cents, for a whole part too large to scale by den
RoundShifted(whole, num, den, to_int, tie) ==
    (whole \div CENT) * CENT + _r((whole % CENT) * den + num, den, to_int, tie)

\* _cap_base(salary) for salary = n/d cents: max(MIN_BASE, min(salary, MAX_BASE))
_cap_base(salary) ==
    [n |-> Max(MIN_BASE * salary.d, Min(salary.n, MAX_BASE * salary.d)), d |-> salary.d]

\* _social(base, round_int): the four employee-side contributions, each rounded
_social(base, to_int) ==
    LET pension      == base.n * SOCIAL_RATES.pension.num
        medical      == base.n * SOCIAL_RATES.medical.num
                          + 3 * CENT * SOCIAL_RATES.medical.den * base.d
        unemployment == base.n * SOCIAL_RATES.unemployment.num
        housing      == base.n * HOUSING_FUND_RATE.num
    IN  [ pension      |-> _r(pension, SOCIAL_RATES.pension.den * base.d, to_int, "even"),
          medical      |-> _r(medical, SOCIAL_RATES.medical.den * base.d, to_int, "even"),
          unemployment |-> _r(unemployment, SOCIAL_RATES.unemployment.den * base.d, to_int, "even"),
          housing_fund |-> _r(housing, HOUSING_FUND_RATE.den * base.d, to_int, "even") ]

\* sum(social.values())
SumSocial(social) ==
    social.pension + social.medical + social.unemployment + social.housing_fund

\* taxable <= limit
WithinLimit(taxable, limit) == limit = INF \/ taxable <= limit * CENT

\* taxable * rate - quick, in cents: whole part and the remainder in 1/100 cent
TaxWhole(taxable, row) == (taxable \div CENT) * row[2] - row[3] * CENT

TaxFrac(taxable, row) == (taxable % CENT) * row[2]

\* round(taxable * rate - quick, 2) for one bracket row
TaxOfRow(taxable, row, tie) ==
    TaxWhole(taxable, row) + Round(TaxFrac(taxable, row), CENT, tie)

RECURSIVE TaxScan(_, _, _, _)
TaxScan(taxable, brackets, i, tie) ==
    IF i > Len(brackets) THEN 0
    ELSE IF WithinLimit(taxable, brackets[i][1]) THEN TaxOfRow(taxable, brackets[i], tie)
    ELSE TaxScan(taxable, brackets, i + 1, tie)

\* _tax(taxable, brackets): the first row whose limit is >= taxable
_tax(taxable, brackets, tie) == TaxScan(taxable, brackets, 1, tie)

\* Is the rounding inside _tax an exact half for this taxable income?
RECURSIVE TaxTieScan(_, _, _)
TaxTieScan(taxable, brackets, i) ==
    IF i > Len(brackets) THEN FALSE
    ELSE IF WithinLimit(taxable, brackets[i][1]) THEN IsTie(TaxFrac(taxable, brackets[i]), CENT)
    ELSE TaxTieScan(taxable, brackets, i + 1)

TaxTies(taxable, brackets) ==
    IF TaxTieScan(taxable, brackets, 1) THEN TieRules ELSE {"down"}

(***************************************************************************)
(* monthly_net and annual_net for a finite amount.  `tie` resolves an      *)
(* exact half inside _tax, `tie12` one in net / 12.  The contributions are  *)
(* a base times a rate: the only exact half among them for the inputs of   *)
(* this model is 36921 * 0.005 = 184.605, which round() takes to 184.60,   *)
(* the even cent.                                                          *)
(***************************************************************************)
\* Variant of monthly_net: taxable and net from the contribution sum taken before
\* the contributions are rounded
monthly_net_sum_before_rounding(gross, to_int, tie) ==
    LET base   == _cap_base([n |-> gross, d |-> 1])
        social == _social(base, to_int)
        \* 0.08 + 0.02 + 0.005 + 0.07 of the base, in 1/1000 cent, plus 3 yuan
        den    == SOCIAL_RATES.unemployment.den
        raw    == base.n * ( (SOCIAL_RATES.pension.num + SOCIAL_RATES.medical.num
                               + HOUSING_FUND_RATE.num) * 10 + SOCIAL_RATES.unemployment.num )
        whole  == gross - 3 * CENT - raw \div den
        frac   == -(raw % den)
        before == whole - STANDARD_DEDUCTION_MONTHLY
        pos    == before > 0 \/ (before = 0 /\ frac = 0)
        taxable == IF pos THEN RoundShifted(before, frac, den, FALSE, "even") ELSE 0
        tax    == _r(_tax(taxable, MONTHLY_TAX_BRACKETS, tie), 1, to_int, "even")
    IN  [ pension      |-> social.pension,
          medical      |-> social.medical,
          unemployment |-> social.unemployment,
          housing_fund |-> social.housing_fund,
          social_total |-> RoundShifted(3 * CENT + raw \div den, raw % den, den, to_int, "even"),
          taxable      |-> IF pos THEN RoundShifted(before, frac, den, to_int, "even") ELSE 0,
          tax          |-> tax,
          net          |-> RoundShifted(whole - tax, frac, den, to_int, "even") ]

monthly_net(gross, to_int, tie) ==
    LET base             == _cap_base([n |-> gross, d |-> 1])
        social           == _social(base, to_int)
        social_total_val == SumSocial(social)
        social_total     == _r(social_total_val, 1, to_int, "even")
        taxable          == Max(0, gross - social_total_val - STANDARD_DEDUCTION_MONTHLY)
        tax              == _r(_tax(taxable, MONTHLY_TAX_BRACKETS, tie), 1, to_int, "even")
        net              == _r(gross - social_total_val - tax, 1, to_int, "even")
    IN  [ pension      |-> social.pension,
          medical      |-> social.medical,
          unemployment |-> social.unemployment,
          housing_fund |-> social.housing_fund,
          social_total |-> social_total,
          taxable      |-> _r(taxable, 1, to_int, "even"),
          tax          |-> tax,
          net          |-> net ]

annual_net(gross_annual, to_int, tie, tie12) ==
    LET avg                   == [n |-> gross_annual, d |-> 12]
        base                  == _cap_base(avg)
        social_m              == _social(base, to_int)
        social_total_year_val == SumSocial(social_m) * 12
        social_total_year     == _r(social_total_year_val, 1, to_int, "even")
        taxable               == Max(0, gross_annual - social_total_year_val
                                          - STANDARD_DEDUCTION_ANNUAL)
        tax                   == _r(_tax(taxable, ANNUAL_TAX_BRACKETS, tie), 1, to_int, "even")
        net                   == _r(gross_annual - social_total_year_val - tax, 1, to_int, "even")
    IN  [ pension_year           |-> _r(social_m.pension * 12, 1, to_int, "even"),
          medical_year           |-> _r(social_m.medical * 12, 1, to_int, "even"),
          unemployment_year      |-> _r(social_m.unemployment * 12, 1, to_int, "even"),
          housing_fund_year      |-> _r(social_m.housing_fund * 12, 1, to_int, "even"),
          social_total_annual    |-> social_total_year,
          taxable_annual         |-> _r(taxable, 1, to_int, "even"),
          tax_annual             |-> tax,
          net_annual             |-> net,
          net_monthly_equivalent |-> _r(net, 12, to_int, tie12) ]

(***************************************************************************)
(* Floats that are not finite numbers.  A value is [kind, v]: kind "num"   *)
(* carries v cents; "nan", "inf" and "ninf" carry nothing.  The operators  *)
(* follow IEEE arithmetic and Python's builtins min / max, which keep      *)
(* their first argument unless a later one compares strictly better (a     *)
(* comparison with NaN is false).                                          *)
(***************************************************************************)
Num(v) == [kind |-> "num", v |-> v]

NaN == [kind |-> "nan", v |-> 0]

PosInf == [kind |-> "inf", v |-> 0]

NegInf == [kind |-> "ninf", v |-> 0]

NotNumeric == [kind |-> "text", v |-> 0]

FLess(a, b) ==
    CASE a.kind = "nan" \/ b.kind = "nan" -> FALSE
      [] a.kind = "ninf" -> b.kind # "ninf"
      [] a.kind = "inf"  -> FALSE
      [] b.kind = "inf"  -> TRUE
      [] b.kind = "ninf" -> FALSE
      [] OTHER -> a.v < b.v

PyMin(a, b) == IF FLess(b, a) THEN b ELSE a

PyMax(a, b) == IF FLess(a, b) THEN b ELSE a

FNeg(a) ==
    CASE a.kind = "inf" -> NegInf
      [] a.kind = "ninf" -> PosInf
      [] a.kind = "nan" -> NaN
      [] OTHER -> Num(-a.v)

FAdd(a, b) ==
    CASE a.kind = "nan" \/ b.kind = "nan" -> NaN
      [] a.kind = "num" /\ b.kind = "num" -> Num(a.v + b.v)
      [] a.kind = "num" -> b
      [] b.kind = "num" -> a
      [] a.kind = b.kind -> a
      [] OTHER -> NaN

FSub(a, b) == FAdd(a, FNeg(b))

\* _cap_base on a float that need not be finite
_cap_base_float(salary) == PyMax(Num(MIN_BASE), PyMin(salary, Num(MAX_BASE)))

\* _tax on a float that need not be finite: the scan compares taxable <= limit,
\* and a positive rate times an infinity is that infinity
RECURSIVE TaxScanFloat(_, _, _)
TaxScanFloat(taxable, brackets, i) ==
    IF i > Len(brackets) THEN Num(0)
    ELSE IF taxable.kind = "num"
         THEN Num(_tax(taxable.v, brackets, "even"))
    ELSE IF taxable.kind = "nan" THEN TaxScanFloat(taxable, brackets, i + 1)
    ELSE IF taxable.kind = "ninf" \/ brackets[i][1] = INF THEN taxable
    ELSE TaxScanFloat(taxable, brackets, i + 1)

_tax_float(taxable, brackets) == TaxScanFloat(taxable, brackets, 1)

\* _r on a float: math.floor raises ValueError on NaN and OverflowError on an
\* infinity; round(x, 2) returns them unchanged.  "ok" is FALSE when it raises.
\* Variant of _r on a float: NaN and the infinities pass through math.floor
_r_float_lenient(x, to_int) ==
    IF x.kind = "num" THEN [ok |-> TRUE, exc |-> "none", val |-> Num(_r(x.v, 1, to_int, "even"))]
    ELSE [ok |-> TRUE, exc |-> "none", val |-> x]

_r_float(x, to_int) ==
    IF x.kind = "num" THEN [ok |-> TRUE, exc |-> "none", val |-> Num(_r(x.v, 1, to_int, "even"))]
    ELSE IF ~to_int THEN [ok |-> TRUE, exc |-> "none", val |-> x]
    ELSE IF x.kind = "nan" THEN [ok |-> FALSE, exc |-> "ValueError", val |-> x]
    ELSE [ok |-> FALSE, exc |-> "OverflowError", val |-> x]

NoResult == [none |-> TRUE]

Returned(rec) == [status |-> "returned", exc |-> "none", value |-> rec]

Raised(exc) == [status |-> "raised", exc |-> exc, value |-> NoResult]

\* monthly_net for an amount that is NaN, infinite or not a number at all: the
\* same statements, on floats.  The result is how the call ends.
monthly_net_float(gross, to_int) ==
    IF gross.kind = "text" THEN Raised("TypeError")
    ELSE
    LET base             == _cap_base_float(gross)
        social           == _social([n |-> base.v, d |-> 1], to_int)
        social_total_val == Num(SumSocial(social))
        social_total     == _r_float(social_total_val, to_int)
        taxable          == PyMax(Num(0), FSub(FSub(gross, social_total_val),
                                               Num(STANDARD_DEDUCTION_MONTHLY)))
        tax              == _r_float(_tax_float(taxable, MONTHLY_TAX_BRACKETS), to_int)
        net              == _r_float(FSub(FSub(gross, social_total_val), tax.val), to_int)
        taxable_r        == _r_float(taxable, to_int)
    IN  IF ~tax.ok THEN Raised(tax.exc)
        ELSE IF ~net.ok THEN Raised(net.exc)
        ELSE IF ~taxable_r.ok THEN Raised(taxable_r.exc)
        ELSE Returned([ pension      |-> Num(social.pension),
                        medical      |-> Num(social.medical),
                        unemployment |-> Num(social.unemployment),
                        housing_fund |-> Num(social.housing_fund),
                        social_total |-> social_total.val,
                        taxable      |-> taxable_r.val,
                        tax          |-> tax.val,
                        net          |-> net.val ])

(***************************************************************************)
(* yearly_salary_details: the statements of one loop iteration, as         *)
(* operators on the values the iteration reads.                            *)
(***************************************************************************)
MONTHS == 12

RECURSIVE Zeros(_)
Zeros(n) == IF n = 0 THEN << >> ELSE Append(Zeros(n - 1), 0)

\* Variant of Normalise: pads in front and keeps the last 12 entries
NormaliseLast(gm) ==
    LET padded == Zeros(MONTHS) \o gm
    IN  SubSeq(padded, Len(padded) - MONTHS + 1, Len(padded))

\* gross_list = (gross_monthly + [0.0] * 12)[:12]
Normalise(gm) == SubSeq(gm \o Zeros(MONTHS), 1, MONTHS)

\* company_housing = _r(base * HOUSING_FUND_RATE_EMPLOYER, round_int)
company_housing_of(base, to_int) ==
    _r(base.n * HOUSING_FUND_RATE_EMPLOYER.num, HOUSING_FUND_RATE_EMPLOYER.den * base.d,
       to_int, "even")

\* Variant of AddTaxable: the running sum is clamped at 0 every month
AddTaxableClamped(cum_taxable, gross, personal_social_total) ==
    Max(0, cum_taxable + gross - personal_social_total - STANDARD_DEDUCTION_MONTHLY)

\* Variant of AddTaxable: the standard deduction is left out
AddTaxableNoDeduction(cum_taxable, gross, personal_social_total) ==
    cum_taxable + gross - personal_social_total

\* cumulative_taxable += gross - personal_social_total - STANDARD_DEDUCTION_MONTHLY
AddTaxable(cum_taxable, gross, personal_social_total) ==
    cum_taxable + gross - personal_social_total - STANDARD_DEDUCTION_MONTHLY

\* Variant of MonthTax: no max(0.0, ...), a negative difference is refunded
MonthTaxRefund(cum_tax, tax_paid, to_int) ==
    _r(cum_tax - tax_paid, 1, to_int, "even")

\* Variant of MonthTax: rounded down instead of to the nearest unit
MonthTaxFloor(cum_tax, tax_paid, to_int) ==
    _r_trunc(Max(0, cum_tax - tax_paid), 1, to_int, "even")

\* month_tax = _r(max(0.0, cumulative_tax - cumulative_tax_paid), round_int)
MonthTax(cum_tax, tax_paid, to_int) ==
    _r(Max(0, cum_tax - tax_paid), 1, to_int, "even")

ZeroTotals ==
    [ gross_annual            |-> 0,
      social_personal_annual  |-> 0,
      housing_personal_annual |-> 0,
      housing_company_annual  |-> 0,
      tax_annual              |-> 0,
      net_annual              |-> 0 ]

\* Variant of Accumulate: tax_annual adds month_tax_raw
AccumulateRawTax(tot, d) ==
    [ gross_annual            |-> tot.gross_annual + d.gross,
      social_personal_annual  |-> tot.social_personal_annual + d.personal_social_total,
      housing_personal_annual |-> tot.housing_personal_annual + d.personal_housing,
      housing_company_annual  |-> tot.housing_company_annual + d.company_housing,
      tax_annual              |-> tot.tax_annual + d.month_tax_raw,
      net_annual              |-> tot.net_annual + d.net ]

\* "accumulate totals": the six += statements
Accumulate(tot, d) ==
    [ gross_annual            |-> tot.gross_annual + d.gross,
      social_personal_annual  |-> tot.social_personal_annual + d.personal_social_total,
      housing_personal_annual |-> tot.housing_personal_annual + d.personal_housing,
      housing_company_annual  |-> tot.housing_company_annual + d.company_housing,
      tax_annual              |-> tot.tax_annual + d.month_tax,
      net_annual              |-> tot.net_annual + d.net ]

\* Variant of RoundTotals: the totals are returned as accumulated
RoundTotalsSkipped(tot, to_int) == tot

\* "apply rounding to totals"
RoundTotals(tot, to_int) ==
    [ k \in DOMAIN tot |-> _r(tot[k], 1, to_int, "even") ]

\* The values one iteration computes for month idx, from the accumulators it reads
Month(idx, gross, cum_taxable, tax_paid, to_int, tie) ==
    LET base                  == _cap_base([n |-> gross, d |-> 1])
        social                == _social(base, to_int)
        personal_social_total == SumSocial(social)
        personal_housing      == social.housing_fund
        company_housing       == company_housing_of(base, to_int)
        new_taxable           == AddTaxable(cum_taxable, gross, personal_social_total)
        taxable_for_bracket   == Max(0, new_taxable)
        cum_tax               == _tax(taxable_for_bracket, ANNUAL_TAX_BRACKETS, tie)
        month_tax_raw         == cum_tax - tax_paid
        month_tax             == MonthTax(cum_tax, tax_paid, to_int)
        net                   == _r(gross - personal_social_total - month_tax, 1, to_int, "even")
    IN  [ cumulative_taxable    |-> new_taxable,
          cumulative_tax        |-> cum_tax,
          cumulative_tax_paid   |-> tax_paid + month_tax,
          gross                 |-> gross,
          personal_social_total |-> personal_social_total,
          personal_housing      |-> personal_housing,
          company_housing       |-> company_housing,
          month_tax_raw         |-> month_tax_raw,
          month_tax             |-> month_tax,
          net                   |-> net,
          details |->
            [ month            |-> idx,
              gross            |-> _r(gross, 1, to_int, "even"),
              pension          |-> social.pension,
              medical          |-> social.medical,
              unemployment     |-> social.unemployment,
              housing_fund     |-> social.housing_fund,
              social_total     |-> _r(personal_social_total, 1, to_int, "even"),
              personal_housing |-> personal_housing,
              company_housing  |-> company_housing,
              housing_total    |-> _r(personal_housing + company_housing, 1, to_int, "even"),
              tax              |-> month_tax,
              net              |-> net ] ]

\* The taxable income the iteration hands to _tax (it decides whether the
\* rounding inside _tax is an exact half)
TaxableForBracket(gross, cum_taxable, to_int) ==
    Max(0, AddTaxable(cum_taxable, gross,
                      SumSocial(_social(_cap_base([n |-> gross, d |-> 1]), to_int))))

(***************************************************************************)
(* Inputs of the model.                                                    *)
(***************************************************************************)
\* Longest list handed to yearly_salary_details
MaxMonths == 13

\* Taxable incomes probed around each bracket limit: limit + k * step
TaxDelta == 2

\* Gross salaries (cents): a negative one, nothing, below MIN_BASE, a salary with
\* cents, the documented 12000, above MAX_BASE, and one that reaches the top bracket
GrossValues == {-100000, 0, 200000, 1000040, 1200000, 4000000, 9000000}

Amounts == GrossValues \cup {12 * g : g \in GrossValues}

SpecialAmounts == {NaN, PosInf, NegInf, NotNumeric}

\* A year that pays g1 for the first a months and g2 afterwards
Pattern(g1, g2, a, n) == [i \in 1..n |-> IF i <= a THEN g1 ELSE g2]

InputLists ==
    { Pattern(g1, g2, a, n) : g1 \in GrossValues, g2 \in GrossValues,
                              a \in 0..MaxMonths, n \in 0..MaxMonths }

Tables == [monthly |-> MONTHLY_TAX_BRACKETS, annual |-> ANNUAL_TAX_BRACKETS]

TaxSteps == {1, CENT, 1000 * CENT}

TaxSamples(brackets) ==
    {0} \cup { x \in { brackets[i][1] * CENT + k * s :
                         i \in 1..(Len(brackets) - 1), k \in (-TaxDelta)..TaxDelta, s \in TaxSteps }
               : x >= 0 }

(***************************************************************************)
(* The state machine: a caller makes one call at a time.                   *)
(***************************************************************************)
NoOutcome == [status |-> "none", exc |-> "none"]

Init ==
    /\ pc = "idle"
    /\ fn = "none"
    /\ amount = Num(0)
    /\ round_int = FALSE
    /\ gross_monthly = << >>
    /\ gross_list = << >>
    /\ cumulative_taxable = 0
    /\ cumulative_tax_paid = 0
    /\ cumulative_tax = 0
    /\ monthly_details = << >>
    /\ totals = ZeroTotals
    /\ result = NoResult
    /\ outcome = NoOutcome

\* monthly_net(gross, round_int) as the caller sees it
monthly_net_call(a, to_int, tie) ==
    IF a.kind = "num" THEN Returned(monthly_net(a.v, to_int, tie))
    ELSE monthly_net_float(a, to_int)

CallMonthlyNet ==
    /\ pc = "idle"
    /\ \E a \in {Num(g) : g \in Amounts} \cup SpecialAmounts, ri \in BOOLEAN, tie \in TieRules :
          LET out == monthly_net_call(a, ri, tie)
          IN  /\ amount' = a
              /\ round_int' = ri
              /\ result' = out.value
              /\ outcome' = [status |-> out.status, exc |-> out.exc]
    /\ pc' = "done"
    /\ fn' = "monthly_net"
    /\ UNCHANGED << gross_monthly, gross_list, cumulative_taxable, cumulative_tax_paid,
                    cumulative_tax, monthly_details, totals >>

CallAnnualNet ==
    /\ pc = "idle"
    /\ \E g \in Amounts, ri \in BOOLEAN, tie \in TieRules, tie12 \in TieRules :
          /\ amount' = Num(g)
          /\ round_int' = ri
          /\ result' = annual_net(g, ri, tie, tie12)
    /\ outcome' = [status |-> "returned", exc |-> "none"]
    /\ pc' = "done"
    /\ fn' = "annual_net"
    /\ UNCHANGED << gross_monthly, gross_list, cumulative_taxable, cumulative_tax_paid,
                    cumulative_tax, monthly_details, totals >>

\* _tax(taxable, brackets) called on its own
CallTax ==
    /\ pc = "idle"
    /\ \E t \in DOMAIN Tables :
         \E x \in TaxSamples(Tables[t]) :
           \E tie \in TaxTies(x, Tables[t]) :
              /\ amount' = Num(x)
              /\ result' = [table |-> t, tax |-> _tax(x, Tables[t], tie)]
    /\ outcome' = [status |-> "returned", exc |-> "none"]
    /\ pc' = "done"
    /\ fn' = "_tax"
    /\ UNCHANGED << round_int, gross_monthly, gross_list, cumulative_taxable,
                    cumulative_tax_paid, cumulative_tax, monthly_details, totals >>

\* yearly_salary_details up to the loop: lines 119-133
CallYearly ==
    /\ pc = "idle"
    /\ \E gm \in InputLists, ri \in BOOLEAN :
          /\ gross_monthly' = gm
          /\ gross_list' = Normalise(gm)
          /\ round_int' = ri
    /\ cumulative_taxable' = 0
    /\ cumulative_tax_paid' = 0
    /\ cumulative_tax' = 0
    /\ monthly_details' = << >>
    /\ totals' = ZeroTotals
    /\ pc' = "loop"
    /\ fn' = "yearly_salary_details"
    /\ UNCHANGED << amount, result, outcome >>

\* One iteration of the loop: lines 135-174
YearlyStep ==
    /\ pc = "loop"
    /\ Len(monthly_details) < Len(gross_list)
    /\ LET idx   == Len(monthly_details) + 1
           gross == gross_list[idx]
       IN  \E tie \in TaxTies(TaxableForBracket(gross, cumulative_taxable, round_int),
                              ANNUAL_TAX_BRACKETS) :
              LET m == Month(idx, gross, cumulative_taxable, cumulative_tax_paid,
                             round_int, tie)
              IN  /\ cumulative_taxable' = m.cumulative_taxable
                  /\ cumulative_tax_paid' = m.cumulative_tax_paid
                  /\ cumulative_tax' = m.cumulative_tax
                  /\ monthly_details' = Append(monthly_details, m.details)
                  /\ totals' = Accumulate(totals, m)
    /\ UNCHANGED << pc, fn, amount, round_int, gross_monthly, gross_list, result, outcome >>

\* After the loop: the totals are rounded and the result returned, lines 176-180
YearlyFinish ==
    /\ pc = "loop"
    /\ Len(monthly_details) = Len(gross_list)
    /\ totals' = RoundTotals(totals, round_int)
    /\ outcome' = [status |-> "returned", exc |-> "none"]
    /\ pc' = "done"
    /\ UNCHANGED << fn, amount, round_int, gross_monthly, gross_list, cumulative_taxable,
                    cumulative_tax_paid, cumulative_tax, monthly_details, result >>

\* The caller has its result; the engine keeps nothing
Return ==
    /\ pc = "done"
    /\ pc' = "idle"
    /\ fn' = "none"
    /\ amount' = Num(0)
    /\ round_int' = FALSE
    /\ gross_monthly' = << >>
    /\ gross_list' = << >>
    /\ cumulative_taxable' = 0
    /\ cumulative_tax_paid' = 0
    /\ cumulative_tax' = 0
    /\ monthly_details' = << >>
    /\ totals' = ZeroTotals
    /\ result' = NoResult
    /\ outcome' = NoOutcome

Next ==
    \/ CallMonthlyNet
    \/ CallAnnualNet
    \/ CallTax
    \/ CallYearly
    \/ YearlyStep
    \/ YearlyFinish
    \/ Return

Spec == Init /\ [][Next]_vars

(***************************************************************************)
(* Properties.                                                             *)
(***************************************************************************)
InYearly == fn = "yearly_salary_details"

YearlyDone == InYearly /\ pc = "done"

\* Sum of f[i] for i in 1..n
RECURSIVE SumTo(_, _)
SumTo(f, n) == IF n = 0 THEN 0 ELSE SumTo(f, n - 1) + f[n]

Done == Len(monthly_details)

TaxOfMonth == [i \in 1..Done |-> monthly_details[i].tax]

\* sum(social.values()) of month i, from the record's four contributions
SocialOfMonth ==
    [i \in 1..Done |-> monthly_details[i].pension + monthly_details[i].medical
                         + monthly_details[i].unemployment + monthly_details[i].housing_fund]

\* The rounding unit of the call (cents)
Unit == IF round_int THEN CENT ELSE 1

\* C1: for every gross list and either rounding mode, the 'tax' field of every
\* per-month record is >= 0.
C1_MonthTaxNonNegative ==
    InYearly => \A i \in 1..Done : monthly_details[i].tax >= 0

\* A month after an income drop: the tax owed on the running total has fallen
\* below what was already withheld, and the month's record reports tax 0.
C1_Witness ==
    /\ InYearly /\ Done >= 2
    /\ gross_list[Done] < gross_list[Done - 1]
    /\ cumulative_tax < cumulative_tax_paid
    /\ monthly_details[Done - 1].tax > 0
    /\ monthly_details[Done].tax = 0

\* C2: after a 12-month run the rounded sum of the 12 'tax' fields equals
\* totals.tax_annual, which equals the final cumulative_tax_paid.
C2_TaxTotalIsSumOfMonths ==
    YearlyDone =>
        /\ totals.tax_annual = _r(SumTo(TaxOfMonth, Done), 1, round_int, "even")
        /\ totals.tax_annual = cumulative_tax_paid

\* A finished year with tax in some months and none in others
C2_Witness ==
    /\ YearlyDone
    /\ totals.tax_annual > 0
    /\ \E i, j \in 1..Done : monthly_details[i].tax > 0 /\ monthly_details[j].tax = 0

\* The unclamped running sum after month k
CumTaxableAfter(k) ==
    SumTo([i \in 1..k |-> gross_list[i] - SocialOfMonth[i] - STANDARD_DEDUCTION_MONTHLY], k)

\* C9: the loop is an in-order fold from (0, 0): after month k cumulative_taxable
\* is the unclamped sum of gross_i - personal_social_total_i - 5000 over i <= k,
\* month k's tax is round(max(0, _tax(max(0, cumulative_taxable_k)) - the rounded,
\* clamped taxes of the months before)), and every month 1..k has been folded once.
C9_InOrderFold ==
    InYearly =>
        /\ Done <= MONTHS
        /\ \A k \in 1..Done : monthly_details[k].month = k
        /\ cumulative_taxable = CumTaxableAfter(Done)
        /\ cumulative_tax_paid = SumTo(TaxOfMonth, Done)
        /\ \A k \in 1..Done :
              \E tie \in TieRules :
                 monthly_details[k].tax =
                    _r(Max(0, _tax(Max(0, CumTaxableAfter(k)), ANNUAL_TAX_BRACKETS, tie)
                                - SumTo(TaxOfMonth, k - 1)),
                       1, round_int, "even")

\* Early months ran a deficit that still offsets income: the running sum was
\* negative, later income was taxed only once the deficit was used up.
C9_Witness ==
    /\ InYearly /\ pc = "loop" /\ Done >= 3
    /\ CumTaxableAfter(1) < 0
    /\ gross_list[Done - 1] > STANDARD_DEDUCTION_MONTHLY + SocialOfMonth[Done - 1]
    /\ monthly_details[Done - 1].tax = 0
    /\ monthly_details[Done].tax > 0

\* After every month the tax paid is at least the tax owed on the running total
\* minus half a rounding unit
C10_StateInv ==
    (InYearly /\ Done >= 1) => 2 * cumulative_tax_paid + Unit >= 2 * cumulative_tax

\* No iteration of the loop decreases cumulative_tax_paid
C10_StepInv ==
    (pc = "loop" /\ pc' # "idle") => cumulative_tax_paid' >= cumulative_tax_paid

\* C10: cumulative_tax_paid never decreases from one month to the next, and after
\* every month it is at least the cumulative tax owed
\* _tax(max(0, cumulative_taxable), ANNUAL_TAX_BRACKETS) minus one rounding step
\* (half a unit): the year is never under-withheld beyond rounding, and tax
\* over-withheld before a drop is never returned.
C10_NeverUnderWithheld == [](C10_StateInv) /\ [][C10_StepInv]_vars

\* Over-withheld tax that a later month does not return: more was paid than is
\* owed, by more than a rounding unit, and the month's tax is 0, not negative.
C10_Witness ==
    /\ InYearly /\ Done >= 2
    /\ cumulative_tax_paid > cumulative_tax + CENT
    /\ monthly_details[Done].tax = 0
    /\ cumulative_tax_paid = SumTo(TaxOfMonth, Done - 1)

\* The contribution base of month i
BaseOfMonth == [i \in 1..Done |-> _cap_base([n |-> gross_list[i], d |-> 1]).n]

\* base * 0.07 summed over the months before any rounding, in 1/100 cent
UnroundedHousing ==
    SumTo([i \in 1..Done |-> BaseOfMonth[i] * HOUSING_FUND_RATE.num], Done)

\* C3 as stated: every total is accumulated from unrounded per-month values and
\* rounded once at the end; no total is a sum of already-rounded monthly values.
\* (Stated for the housing totals, whose unrounded monthly value is base * 0.07.)
C3_TotalsFromUnroundedValues ==
    YearlyDone =>
        /\ totals.gross_annual = _r(SumTo(gross_list, Done), 1, round_int, "even")
        /\ \E tie \in TieRules :
              totals.housing_personal_annual =
                  _r(UnroundedHousing, HOUSING_FUND_RATE.den, round_int, tie)
        /\ \E tie \in TieRules :
              totals.housing_company_annual =
                  _r(UnroundedHousing, HOUSING_FUND_RATE_EMPLOYER.den, round_int, tie)

\* C3 amended: gross_annual is the sum of the raw monthly gross rounded once;
\* social_personal_annual is the sum of the monthly sums of the four rounded
\* contributions; the housing, tax and net totals are the sums of the rounded
\* values the monthly records hold; each sum passes through the rounding once.
C3_TotalsFromRoundedMonths ==
    YearlyDone =>
        /\ totals.gross_annual = _r(SumTo(gross_list, Done), 1, round_int, "even")
        /\ totals.social_personal_annual = _r(SumTo(SocialOfMonth, Done), 1, round_int, "even")
        /\ totals.housing_personal_annual =
              _r(SumTo([i \in 1..Done |-> monthly_details[i].personal_housing], Done),
                 1, round_int, "even")
        /\ totals.housing_company_annual =
              _r(SumTo([i \in 1..Done |-> monthly_details[i].company_housing], Done),
                 1, round_int, "even")
        /\ totals.tax_annual = _r(SumTo(TaxOfMonth, Done), 1, round_int, "even")
        /\ totals.net_annual =
              _r(SumTo([i \in 1..Done |-> monthly_details[i].net], Done), 1, round_int, "even")

\* A finished year whose housing total differs from the rounded sum of the
\* unrounded monthly values, and whose gross total needed the final rounding
C3_Witness ==
    /\ YearlyDone
    /\ \A tie \in TieRules :
          totals.housing_personal_annual #
              _r(UnroundedHousing, HOUSING_FUND_RATE.den, round_int, tie)
    /\ totals.gross_annual # SumTo(gross_list, Done)

\* The input is one gross repeated 12 times
ConstantYear ==
    /\ YearlyDone
    /\ Len(gross_monthly) = MONTHS
    /\ \A i \in 1..MONTHS : gross_monthly[i] = gross_monthly[1]

Abs(x) == IF x < 0 THEN -x ELSE x

\* The totals of a constant year against annual_net(12 * g), within one unit
PathsAgree ==
    \A tie \in TieRules :
       LET a == annual_net(MONTHS * gross_monthly[1], round_int, tie, "even")
       IN  /\ Abs(totals.tax_annual - a.tax_annual) <= Unit
           /\ Abs(totals.net_annual - a.net_annual) <= Unit
           /\ Abs(totals.social_personal_annual - a.social_total_annual) <= Unit

\* C4 as stated: for every constant monthly gross g and either rounding mode the
\* totals of yearly_salary_details([g]*12) and annual_net(12*g) differ by at most
\* 1 unit (tax, net, personal social contributions).
C4_PathsAgreeForEveryGross == ConstantYear => PathsAgree

\* C4 amended: the same, for every constant monthly gross g that is a whole
\* number of rounding units (whole yuan when round_int is true, whole cents
\* otherwise).
C4_PathsAgreeForWholeUnits ==
    (ConstantYear /\ gross_monthly[1] % Unit = 0) => PathsAgree

\* The documented case: 12000 a month, 3356.40 of tax on both paths
C4_Witness ==
    /\ ConstantYear /\ ~round_int
    /\ gross_monthly[1] = 12000 * CENT
    /\ totals.tax_annual = 335640
    /\ annual_net(MONTHS * gross_monthly[1], round_int, "even", "even").tax_annual = 335640

MonthlyDone == fn = "monthly_net" /\ pc = "done"

Entry(i) == IF i <= Len(gross_monthly) THEN gross_monthly[i] ELSE 0

\* C6: for a list of any length the result has 12 records numbered 1..12;
\* record i is computed from entry i, months beyond the list from gross 0, and
\* entries beyond the 12th change nothing.  No error is raised.
C6_NormalisedToTwelve ==
    YearlyDone =>
        /\ outcome = [status |-> "returned", exc |-> "none"]
        /\ Done = MONTHS
        /\ \A i \in 1..MONTHS :
              LET social == _social(_cap_base([n |-> Entry(i), d |-> 1]), round_int)
              IN  /\ monthly_details[i].month = i
                  /\ monthly_details[i].gross = _r(Entry(i), 1, round_int, "even")
                  /\ monthly_details[i].pension = social.pension
                  /\ monthly_details[i].housing_fund = social.housing_fund
                  /\ monthly_details[i].social_total = _r(SumSocial(social), 1, round_int, "even")
        /\ totals.gross_annual =
              _r(SumTo([i \in 1..MONTHS |-> Entry(i)], MONTHS), 1, round_int, "even")

\* A list of 13 entries whose 13th is a salary that the totals do not count, and
\* whose first entries differ from it
C6_Witness ==
    /\ YearlyDone
    /\ Len(gross_monthly) > MONTHS
    /\ gross_monthly[MONTHS + 1] > 0
    /\ gross_monthly[1] # gross_monthly[MONTHS + 1]
    /\ totals.gross_annual < SumTo(gross_monthly, Len(gross_monthly))

TaxDone == fn = "_tax" /\ pc = "done"

\* C7: for each of the two bracket tables _tax is monotone non-decreasing:
\* a <= b implies _tax(a) <= _tax(b), also across a bracket limit.
C7_TaxMonotone ==
    TaxDone =>
        \A b \in TaxSamples(Tables[result.table]) :
           amount.v < b =>
              \A tie \in TaxTies(b, Tables[result.table]) :
                 result.tax <= _tax(b, Tables[result.table], tie)

\* _tax just below the 144000 limit of the annual table, with a sample just
\* above it in the next bracket
C7_Witness ==
    /\ TaxDone /\ result.table = "annual"
    /\ amount.v = 144000 * CENT - 1
    /\ result.tax > 0
    /\ 144000 * CENT + 1 \in TaxSamples(ANNUAL_TAX_BRACKETS)
    /\ result.tax <= _tax(144000 * CENT + 1, ANNUAL_TAX_BRACKETS, "down")

\* The contribution sum before any rounding, as whole cents and a rest in
\* 1/1000 cent: base * (0.08 + 0.02 + 0.005 + 0.07) + 3
UnroundedSocial(gross) ==
    LET base == _cap_base([n |-> gross, d |-> 1])
        den  == SOCIAL_RATES.unemployment.den
        raw  == base.n * ( (SOCIAL_RATES.pension.num + SOCIAL_RATES.medical.num
                             + HOUSING_FUND_RATE.num) * 10 + SOCIAL_RATES.unemployment.num )
    IN  [whole |-> 3 * CENT + raw \div den, rest |-> raw % den, den |-> den]

\* C8 as stated: taxable = max(0, gross - S - 5000) and net = gross - S - tax for
\* the contribution sum S computed before any rounding; only the outputs are
\* rounded.
C8_UsesUnroundedSum ==
    (MonthlyDone /\ amount.kind = "num") =>
        LET S      == UnroundedSocial(amount.v)
            before == amount.v - S.whole - STANDARD_DEDUCTION_MONTHLY
            pos    == before > 0 \/ (before = 0 /\ S.rest = 0)
        IN  \E tie \in TieRules :
              /\ result.taxable =
                    IF pos THEN RoundShifted(before, -S.rest, S.den, round_int, tie) ELSE 0
              /\ result.net =
                    RoundShifted(amount.v - S.whole - result.tax, -S.rest, S.den, round_int, tie)

\* C8 amended: taxable and net are derived from the sum of the four contributions
\* as _social returns them, each already rounded under round_int; that sum is not
\* rounded again before it is used.
C8_UsesSumOfRounded ==
    (MonthlyDone /\ amount.kind = "num") =>
        LET S == result.pension + result.medical + result.unemployment + result.housing_fund
        IN  /\ result.social_total = _r(S, 1, round_int, "even")
            /\ result.taxable =
                  _r(Max(0, amount.v - S - STANDARD_DEDUCTION_MONTHLY), 1, round_int, "even")
            /\ result.net = _r(amount.v - S - result.tax, 1, round_int, "even")

\* monthly_net(0, round_int = true): contributions 215 + 57 + 13 + 188 = 473 and
\* net -473, where the unrounded sum 473.75 would give -474
C8_Witness ==
    /\ MonthlyDone /\ amount = Num(0) /\ round_int
    /\ result.social_total = 473 * CENT
    /\ result.net = -473 * CENT
    /\ UnroundedSocial(0) = [whole |-> 47375, rest |-> 0, den |-> SOCIAL_RATES.unemployment.den]

====
